---- MODULE Spec2Model ----
(***************************************************************************)
(* Ranged enumerations (package enumr, Python 2.7).                        *)
(*                                                                         *)
(* _MetaEnumr.__new__ turns the prototype of a subclass of enumr (a        *)
(* namespace of item descriptors) into a class holding subrangef items     *)
(* and two lookup structures; enumr.__new__ resolves a value to an item.   *)
(***************************************************************************)
EXTENDS Integers, Sequences, FiniteSets, TLC

\* Item limits of the plain prototypes range over 0..MaxVal.
MaxVal == 5
\* Item limits of the annotated prototypes range over 0..MaxAntVal.
MaxAntVal == 2
\* A descriptor (min, max) of a prototype has max - min in -1..MaxSpan.
MaxSpan == 2

VARIABLES
    body,       \* the namespace the class statement leaves: its assignments by name
    replaced,   \* the assignments of the class statement that a later
                \* assignment to the same name replaced
    dict_,      \* the namespace handed to _MetaEnumr.__new__, which updates it
    pc,         \* "declared", "built" (class exists) or "failed" (__new__ raised)
    cls,        \* the class made by type.__new__, NoClass while there is none
    error,      \* the exception raised by _MetaEnumr.__new__, NoError if none
    call,       \* arguments of the call cls(value[, default]) being made
    result,     \* outcome of that call
    readers     \* for each concurrent caller, its call cls(value[, default])
                \* and how far enumr.__new__ has run in it

vars == <<body, replaced, dict_, pc, cls, error, call, result, readers>>

----------------------------------------------------------------------------
(* Python values.  t is the type name, n the number, s the text, e the     *)
(* elements of a tuple or list.                                            *)

PyInt(n) == [t |-> "int", n |-> n, s |-> "", e |-> <<>>]
PyLong(n) == [t |-> "long", n |-> n, s |-> "", e |-> <<>>]
PyBool(n) == [t |-> "bool", n |-> n, s |-> "", e |-> <<>>]
\* the float n + 0.5
PyFloat(n) == [t |-> "float", n |-> n, s |-> "", e |-> <<>>]
PyStr(s) == [t |-> "str", n |-> 0, s |-> s, e |-> <<>>]
PyTuple(e) == [t |-> "tuple", n |-> 0, s |-> "", e |-> e]
PyList(e) == [t |-> "list", n |-> 0, s |-> "", e |-> e]
\* a class object, such as ValueError or int
PyType(s) == [t |-> "type", n |-> 0, s |-> s, e |-> <<>>]
PyNone == [t |-> "NoneType", n |-> 0, s |-> "", e |-> <<>>]
\* the value attribute of an item: the subrange min..max
PySubrange(lo, hi) == [t |-> "subrange", n |-> 0, s |-> "", e |-> <<PyInt(lo), PyInt(hi)>>]

\* isinstance(x, tuple) or isinstance(x, list)
IsTupleOrList(x) == x.t \in {"tuple", "list"}

\* isinstance(x, int): bool is a subclass of int, long is not
IsInstanceInt(x) == x.t \in {"int", "bool"}

\* bool(x) for the values used as _ant_spec and _str_spec
Truthy(x) ==
    CASE x.t \in {"tuple", "list"} -> Len(x.e) > 0
      [] x.t = "str" -> x.s /= ""
      [] x.t \in {"int", "long", "bool"} -> x.n /= 0
      [] x.t = "NoneType" -> FALSE
      [] OTHER -> TRUE

\* the exception classes among the class objects used as default
ExceptionClasses == {"ValueError", "KeyError", "TypeError"}

\* IsExceptionClass without the issubclass test
IsExceptionClassAnyType(x) == x.t = "type"

\* isinstance(default, type) and issubclass(default, BaseException)
IsExceptionClass(x) == x.t = "type" /\ x.s \in ExceptionClasses

\* name.startswith("_") over the keys a namespace may hold
PrivateKeys == {"_ant_spec", "_str_spec", "_doc", "_lookup_dict", "_ranges_list"}
StartsWithUnderscore(name) == name \in PrivateKeys

----------------------------------------------------------------------------
(* Exceptions: the class, which raise statement, and the operands of the   *)
(* message.                                                                *)

Exc(exc, what, args) == [exc |-> exc, what |-> what, args |-> args]
NoError == Exc("", "none", <<>>)

NoItem == [min |-> 0, max |-> -1, kw |-> <<>>]
Raised(err) == [ok |-> FALSE, item |-> NoItem, err |-> err]
Made(item) == [ok |-> TRUE, item |-> item, err |-> NoError]

----------------------------------------------------------------------------
(* subrangef of package subrange, as enumr uses it.                        *)

\* subrangef(*args, **kwargs) for args of one or two integers: one integer
\* n gives n..n, two integers give min..max and min > max is rejected; the
\* keywords become attributes of the item.  The prototypes below hand it
\* nothing but integers.
subrangef(args, kwargs) ==
    LET lo == args[1].n
        hi == args[Len(args)].n
    IN IF lo > hi
       THEN Raised(Exc("ValueError", "invalid_range", args))
       ELSE Made([min |-> lo, max |-> hi, kw |-> kwargs])

\* item.name
ItemName(item) == item.kw["name"].s

\* len(item)
ItemLen(item) == item.max - item.min + 1

\* value in item
Contains(item, v) == item.min <= v /\ v <= item.max

\* value < item
ValueBelow(v, item) == v < item.min

\* item > prev
ItemGreater(item, prev) == item.min > prev.max

----------------------------------------------------------------------------
(* _MetaEnumr.__new__                                                      *)

\* dict_.get(key, dflt)
DictGet(d, key, dflt) == IF key \in DOMAIN d THEN d[key] ELSE dflt

\* ant_spec after lines 185-187
AntSpecOf(d) ==
    LET ant_spec == DictGet(d, "_ant_spec", PyTuple(<<>>))
    IN IF ~IsTupleOrList(ant_spec) THEN PyTuple(<<ant_spec>>) ELSE ant_spec

\* str_spec of line 189
StrSpecOf(d) == DictGet(d, "_str_spec", PyStr(""))

\* dict(zip(keys, values)): pairs up to the shorter length, a later pair
\* replacing an earlier one of the same key
DictZip(keys, values) ==
    LET n == IF Len(keys) < Len(values) THEN Len(keys) ELSE Len(values)
    IN [k \in {keys[i].s : i \in 1..n} |->
            values[CHOOSE i \in 1..n :
                       keys[i].s = k /\ \A j \in (i+1)..n : keys[j].s /= k]]

\* kwargs[key] = value
DictSet(d, key, value) ==
    [k \in DOMAIN d \cup {key} |-> IF k = key THEN value ELSE d[k]]

\* items_factory with the length compared before the type is looked at
items_factory_length_first(ant_spec, str_spec, name, descr) ==
    IF Truthy(ant_spec) /\ Len(descr.e) /= 1 + Len(ant_spec.e)
    THEN Raised(Exc("ValueError", "descriptor_arity",
                    <<PyStr(name), PyInt(Len(descr.e)), PyInt(1 + Len(ant_spec.e))>>))
    ELSE IF Truthy(ant_spec) /\ ~IsTupleOrList(descr)
    THEN Raised(Exc("TypeError", "descriptor_type", <<PyStr(name), PyStr(descr.t)>>))
    ELSE LET args0 == IF Truthy(ant_spec) THEN descr.e[1] ELSE descr
             kwargs0 == IF Truthy(ant_spec)
                        THEN DictZip(ant_spec.e, Tail(descr.e))
                        ELSE <<>>
             args == IF ~IsTupleOrList(args0) THEN <<args0>> ELSE args0.e
             kwargs1 == IF Truthy(str_spec)
                        THEN DictSet(kwargs0, "str_spec", str_spec)
                        ELSE kwargs0
             kwargs == DictSet(kwargs1, "name", PyStr(name))
         IN subrangef(args, kwargs)

\* items_factory(name, descr) of lines 191-232, with the ant_spec and
\* str_spec it reads from the enclosing function
items_factory(ant_spec, str_spec, name, descr) ==
    IF Truthy(ant_spec) /\ ~IsTupleOrList(descr)
    THEN Raised(Exc("TypeError", "descriptor_type", <<PyStr(name), PyStr(descr.t)>>))
    ELSE IF Truthy(ant_spec) /\ Len(descr.e) /= 1 + Len(ant_spec.e)
    THEN Raised(Exc("ValueError", "descriptor_arity",
                    <<PyStr(name), PyInt(Len(descr.e)), PyInt(1 + Len(ant_spec.e))>>))
    ELSE LET args0 == IF Truthy(ant_spec) THEN descr.e[1] ELSE descr
             kwargs0 == IF Truthy(ant_spec)
                        THEN DictZip(ant_spec.e, Tail(descr.e))
                        ELSE <<>>
             args == IF ~IsTupleOrList(args0) THEN <<args0>> ELSE args0.e
             kwargs1 == IF Truthy(str_spec)
                        THEN DictSet(kwargs0, "str_spec", str_spec)
                        ELSE kwargs0
             kwargs == DictSet(kwargs1, "name", PyStr(name))
         IN subrangef(args, kwargs)

\* list(items_factory(name, descr) for ... ): the factory results in
\* iteration order
FactoryResults(d, order) ==
    [i \in 1..Len(order) |->
        items_factory(AntSpecOf(d), StrSpecOf(d), order[i], d[order[i]])]

\* sorted(..., key=lambda item: item.min): stable, so equal keys keep
\* their iteration order
RECURSIVE Sorted(_)
Sorted(seq) ==
    IF Len(seq) <= 1 THEN seq
    ELSE LET n == Len(seq)
             init == Sorted(SubSeq(seq, 1, n - 1))
             x == seq[n]
             k == Cardinality({i \in 1..(n-1) : init[i].min <= x.min})
         IN SubSeq(init, 1, k) \o <<x>> \o SubSeq(init, k + 1, n - 1)

\* the overlap walk comparing the lower limits only
OverlapAtMins(items) ==
    {i \in 1..(Len(items) - 1) : ~(items[i+1].min > items[i].min)}

\* the overlap walk letting a shared limit pass
OverlapAtShared(items) ==
    {i \in 1..(Len(items) - 1) : ~(items[i+1].min >= items[i].max)}

\* the overlap walk of lines 239-244: the indexes i of pairs
\* (prev, item) = (items[i], items[i+1]) that raise
OverlapAt(items) ==
    {i \in 1..(Len(items) - 1) : ~ItemGreater(items[i+1], items[i])}

OverlapError(prev, item) ==
    Exc("ValueError", "overlapping_ranges",
        <<PySubrange(prev.min, prev.max), PySubrange(item.min, item.max),
          PyStr(ItemName(prev)), PyStr(ItemName(item))>>)

Min(S) == CHOOSE x \in S : \A y \in S : x <= y

\* the lookup made of the single-valued items only
LookupDictOfSingles(items) ==
    [k \in {items[i].min : i \in {j \in 1..Len(items) : ItemLen(items[j]) = 1}} |->
        items[CHOOSE i \in 1..Len(items) : items[i].min = k]]

\* {item.min: item for item in items}
LookupDictOf(items) ==
    [k \in {items[i].min : i \in 1..Len(items)} |->
        items[CHOOSE i \in 1..Len(items) :
                  items[i].min = k /\ \A j \in (i+1)..Len(items) : items[j].min /= k]]

\* the list keeping every item
RangesListOfAll(items) == SelectSeq(items, LAMBDA item : ItemLen(item) >= 1)

\* [item for item in items if len(item) > 1]
RangesListOf(items) == SelectSeq(items, LAMBDA item : ItemLen(item) > 1)

\* dict_.update(other): the keys of other replace or extend those of d
DictUpdate(d, other) ==
    [k \in DOMAIN d \cup DOMAIN other |-> IF k \in DOMAIN other THEN other[k] ELSE d[k]]

\* ItemsByName pairing the names with the items in the opposite order
ItemsByNameMispaired(items) ==
    [k \in {ItemName(items[i]) : i \in 1..Len(items)} |->
        items[Len(items) + 1 -
                  CHOOSE i \in 1..Len(items) :
                      ItemName(items[i]) = k
                          /\ \A j \in (i+1)..Len(items) : ItemName(items[j]) /= k]]

\* {item.name: item for item in items}
ItemsByName(items) ==
    [k \in {ItemName(items[i]) : i \in 1..Len(items)} |->
        items[CHOOSE i \in 1..Len(items) :
                  ItemName(items[i]) = k
                      /\ \A j \in (i+1)..Len(items) : ItemName(items[j]) /= k]]

\* lines 246-249: the namespace with the items and the two lookup
\* structures put into it
Attach(d, items) ==
    DictSet(DictSet(DictUpdate(d, ItemsByName(items)),
                    "_lookup_dict", LookupDictOf(items)),
            "_ranges_list", RangesListOf(items))

\* _MetaEnumr.__new__ putting the items and lookup structures into the
\* namespace before the overlap walk
MetaNewOutcomeEager(name, d, order) ==
    LET made == FactoryResults(d, order)
        bad == {i \in 1..Len(made) : ~made[i].ok}
    IN IF bad /= {}
       THEN [ok |-> FALSE, dict |-> d, err |-> made[Min(bad)].err]
       ELSE LET items == Sorted([i \in 1..Len(made) |-> made[i].item])
                over == OverlapAt(items)
            IN IF over /= {}
               THEN [ok |-> FALSE, dict |-> Attach(d, items),
                     err |-> OverlapError(items[Min(over)], items[Min(over) + 1])]
               ELSE [ok |-> TRUE, dict |-> Attach(d, items), err |-> NoError]

\* The outcome of _MetaEnumr.__new__(cls, name, bases, d) when d is
\* iterated in the given order: the exception raised, or the namespace
\* the class is made of.  A raise leaves d as it was: lines 246-249 are
\* not reached.
MetaNewOutcome(name, d, order) ==
    LET made == FactoryResults(d, order)
        bad == {i \in 1..Len(made) : ~made[i].ok}
    IN IF bad /= {}
       THEN [ok |-> FALSE, dict |-> d, err |-> made[Min(bad)].err]
       ELSE LET items == Sorted([i \in 1..Len(made) |-> made[i].item])
                over == OverlapAt(items)
            IN IF over /= {}
               THEN [ok |-> FALSE, dict |-> d,
                     err |-> OverlapError(items[Min(over)], items[Min(over) + 1])]
               ELSE [ok |-> TRUE, dict |-> Attach(d, items), err |-> NoError]

\* the class object: its name and its namespace
NoClass == [name |-> "", dict |-> <<>>]

\* the orders in which dict_.items() may yield the keys of d that pass
\* the filter of line 236 (the order of a Python 2 dict is arbitrary)
Orders(d) ==
    LET names == {k \in DOMAIN d : ~StartsWithUnderscore(k)}
    IN {o \in [1..Cardinality(names) -> names] :
           \A i, j \in DOMAIN o : i /= j => o[i] /= o[j]}

ClassNames == {"Devices"}

MetaNew ==
    /\ pc = "declared"
    /\ \E name \in ClassNames, order \in Orders(dict_) :
         LET out == MetaNewOutcome(name, dict_, order)
         IN /\ pc' = IF out.ok THEN "built" ELSE "failed"
            /\ dict_' = out.dict
            /\ cls' = IF out.ok THEN [name |-> name, dict |-> out.dict] ELSE NoClass
            /\ error' = out.err
    /\ UNCHANGED <<body, replaced, call, result, readers>>

----------------------------------------------------------------------------
(* enumr.__new__                                                           *)

NoCall == [value |-> PyNone, default |-> PyNone, given |-> FALSE]
NoResult == [kind |-> "none", item |-> NoItem, value |-> PyNone, err |-> NoError]
ReturnItem(item) == [kind |-> "item", item |-> item, value |-> PyNone, err |-> NoError]
ReturnDefault(v) == [kind |-> "default", item |-> NoItem, value |-> v, err |-> NoError]
Raise(err) == [kind |-> "raise", item |-> NoItem, value |-> PyNone, err |-> err]

\* one pass of the loop that keeps mid inside the lower half
LoopStepKeepingMid(ranges_list, v, st) ==
    LET mid == (st.left + st.right) \div 2
        item == ranges_list[mid + 1]
    IN IF Contains(item, v)
       THEN [st EXCEPT !.found = TRUE, !.item = item]
       ELSE IF ValueBelow(v, item)
       THEN [st EXCEPT !.right = mid]
       ELSE [st EXCEPT !.left = mid + 1]

\* one pass of the loop with the two halves exchanged
LoopStepSwapped(ranges_list, v, st) ==
    LET mid == (st.left + st.right) \div 2
        item == ranges_list[mid + 1]
    IN IF Contains(item, v)
       THEN [st EXCEPT !.found = TRUE, !.item = item]
       ELSE IF ValueBelow(v, item)
       THEN [st EXCEPT !.left = mid + 1]
       ELSE [st EXCEPT !.right = mid - 1]

\* one pass of the loop of lines 445-453 over the search state
\* [left, right, found, item]
LoopStep(ranges_list, v, st) ==
    LET mid == (st.left + st.right) \div 2
        item == ranges_list[mid + 1]
    IN IF Contains(item, v)
       THEN [st EXCEPT !.found = TRUE, !.item = item]
       ELSE IF ValueBelow(v, item)
       THEN [st EXCEPT !.right = mid - 1]
       ELSE [st EXCEPT !.left = mid + 1]

\* the loop of lines 445-453, run to its end
RECURSIVE Loop(_, _, _)
Loop(ranges_list, v, st) ==
    IF st.found \/ ~(st.left <= st.right) THEN st
    ELSE Loop(ranges_list, v, LoopStep(ranges_list, v, st))

\* lines 443-444
LoopStart(ranges_list) ==
    [left |-> 0, right |-> Len(ranges_list) - 1, found |-> FALSE, item |-> NoItem]

\* cls(value, default) with a fallback value taking the place of the
\* invalid-initializer error
NewFallbackFirst(c, value, default) ==
    IF ~IsInstanceInt(value) /\ ~IsExceptionClass(default)
    THEN ReturnDefault(default)
    ELSE IF ~IsInstanceInt(value)
    THEN Raise(Exc("TypeError", "invalid_initializer", <<value>>))
    ELSE IF value.n \in DOMAIN c.dict["_lookup_dict"]
    THEN ReturnItem(c.dict["_lookup_dict"][value.n])
    ELSE LET ranges_list == c.dict["_ranges_list"]
             st == Loop(ranges_list, value.n, LoopStart(ranges_list))
         IN IF st.found
            THEN ReturnItem(st.item)
            ELSE IF IsExceptionClass(default)
            THEN Raise(Exc(default.s, "not_in", <<value, PyStr(c.name)>>))
            ELSE ReturnDefault(default)

\* cls(value, default)
New(c, value, default) ==
    IF ~IsInstanceInt(value)
    THEN Raise(Exc("TypeError", "invalid_initializer", <<value>>))
    ELSE IF value.n \in DOMAIN c.dict["_lookup_dict"]
    THEN ReturnItem(c.dict["_lookup_dict"][value.n])
    ELSE LET ranges_list == c.dict["_ranges_list"]
             st == Loop(ranges_list, value.n, LoopStart(ranges_list))
         IN IF st.found
            THEN ReturnItem(st.item)
            ELSE IF IsExceptionClass(default)
            THEN Raise(Exc(default.s, "not_in", <<value, PyStr(c.name)>>))
            ELSE ReturnDefault(default)

\* the values callers pass
Values ==
    {PyInt(v) : v \in -1..(MaxVal + 1)}
        \cup {PyBool(1), PyLong(1), PyFloat(1), PyStr("1")}

\* the defaults callers pass
Defaults == {PyType("KeyError"), PyType("int"), PyNone}

\* cls(value, default)
Resolve ==
    /\ pc = "built"
    /\ call = NoCall
    /\ \E value \in Values, default \in Defaults :
         /\ call' = [value |-> value, default |-> default, given |-> TRUE]
         /\ result' = New(cls, value, default)
    /\ UNCHANGED <<body, replaced, dict_, pc, cls, error, readers>>

\* cls(value): default=ValueError of line 405
ResolveNoDefault ==
    /\ pc = "built"
    /\ call = NoCall
    /\ \E value \in Values :
         /\ call' = [value |-> value, default |-> PyType("ValueError"), given |-> FALSE]
         /\ result' = New(cls, value, PyType("ValueError"))
    /\ UNCHANGED <<body, replaced, dict_, pc, cls, error, readers>>

\* the caller takes the outcome and may call again
Return ==
    /\ call /= NoCall
    /\ call' = NoCall
    /\ result' = NoResult
    /\ UNCHANGED <<body, replaced, dict_, pc, cls, error, readers>>

----------------------------------------------------------------------------
(* enumr.__new__ run by several callers, one loop pass at a time           *)

Readers == {"r1", "r2"}

\* a caller outside enumr.__new__
Idle ==
    [at |-> "idle", value |-> PyNone, default |-> PyNone,
     st |-> LoopStart(<<>>), result |-> NoResult]

\* the values the concurrent callers resolve
ReaderValues == {PyInt(v) : v \in -1..(MaxVal + 1)} \cup {PyStr("1")}

\* their defaults: ValueError when the argument is omitted, or None
ReaderDefaults == {PyType("ValueError"), PyNone}

\* line 405: cls(value[, default]) is called
Enter(r) ==
    /\ pc = "built"
    /\ readers[r].at = "idle"
    /\ \E value \in ReaderValues, default \in ReaderDefaults :
         readers' = [readers EXCEPT ![r] =
                        [Idle EXCEPT !.at = "check", !.value = value, !.default = default]]
    /\ UNCHANGED <<body, replaced, dict_, pc, cls, error, call, result>>

\* lines 434-444: the type check, the direct lookup, and the limits of
\* the search when neither ends the call
Check(r) ==
    LET me == readers[r]
    IN /\ me.at = "check"
       /\ readers' = [readers EXCEPT ![r] =
               IF ~IsInstanceInt(me.value)
               THEN [me EXCEPT !.at = "done",
                               !.result = Raise(Exc("TypeError", "invalid_initializer",
                                                    <<me.value>>))]
               ELSE IF me.value.n \in DOMAIN cls.dict["_lookup_dict"]
               THEN [me EXCEPT !.at = "done",
                               !.result = ReturnItem(cls.dict["_lookup_dict"][me.value.n])]
               ELSE [me EXCEPT !.at = "loop",
                               !.st = LoopStart(cls.dict["_ranges_list"])]]
       /\ UNCHANGED <<body, replaced, dict_, pc, cls, error, call, result>>

\* Iterate entering a hit of the search into the direct lookup
IterateCaching(r) ==
    LET me == readers[r]
        st == LoopStep(cls.dict["_ranges_list"], me.value.n, me.st)
    IN /\ me.at = "loop"
       /\ me.st.left <= me.st.right
       /\ readers' = [readers EXCEPT ![r] =
               IF st.found
               THEN [me EXCEPT !.at = "done", !.st = st, !.result = ReturnItem(st.item)]
               ELSE [me EXCEPT !.st = st]]
       /\ cls' = IF st.found
                 THEN [cls EXCEPT !.dict["_lookup_dict"] =
                          DictUpdate(@, [k \in {me.value.n} |-> st.item])]
                 ELSE cls
       /\ UNCHANGED <<body, replaced, dict_, pc, error, call, result>>

\* lines 445-453: one pass of the while loop
Iterate(r) ==
    LET me == readers[r]
        st == LoopStep(cls.dict["_ranges_list"], me.value.n, me.st)
    IN /\ me.at = "loop"
       /\ me.st.left <= me.st.right
       /\ readers' = [readers EXCEPT ![r] =
               IF st.found
               THEN [me EXCEPT !.at = "done", !.st = st, !.result = ReturnItem(st.item)]
               ELSE [me EXCEPT !.st = st]]
       /\ cls' = cls
       /\ UNCHANGED <<body, replaced, dict_, pc, error, call, result>>

\* lines 445 and 455-459: the loop condition fails and the call ends
\* with the default
Miss(r) ==
    LET me == readers[r]
    IN /\ me.at = "loop"
       /\ ~(me.st.left <= me.st.right)
       /\ readers' = [readers EXCEPT ![r] =
               [me EXCEPT !.at = "done",
                          !.result =
                              IF IsExceptionClass(me.default)
                              THEN Raise(Exc(me.default.s, "not_in",
                                             <<me.value, PyStr(cls.name)>>))
                              ELSE ReturnDefault(me.default)]]
       /\ UNCHANGED <<body, replaced, dict_, pc, cls, error, call, result>>

\* the caller has the outcome
Leave(r) ==
    /\ readers[r].at = "done"
    /\ readers' = [readers EXCEPT ![r] = Idle]
    /\ UNCHANGED <<body, replaced, dict_, pc, cls, error, call, result>>

\* enumr.__new__ goes on in caller r
Advance(r) == Check(r) \/ Iterate(r) \/ Miss(r)

----------------------------------------------------------------------------
(* Prototypes                                                              *)

ItemKeys == {"A", "B", "C"}

\* the pairs (min, max) over 0..top, those with max = min - 1 included
Pairs(top) ==
    {PyTuple(<<PyInt(p[1]), PyInt(p[2])>>) :
        p \in {q \in (0..top) \X (0..top) : q[1] - 1 <= q[2] /\ q[2] <= q[1] + MaxSpan}}

\* descriptors of a prototype without _ant_spec: n, or (min, max)
PlainDescrs == {PyInt(n) : n \in 0..MaxVal} \cup Pairs(MaxVal)

\* prototypes without private keys, of zero to three items
PlainPrototype(d) ==
    \E K \in SUBSET ItemKeys :
        \E m \in [K -> PlainDescrs] :
            d = m

AntKeys == {"A", "B"}

\* range initializers of the annotated prototypes
AntInits == {PyInt(n) : n \in 0..MaxAntVal} \cup Pairs(MaxAntVal)

\* descriptors of the annotated prototypes: a bare initializer, a string,
\* and sequences of an initializer and zero, one or two attribute values
AntDescrs ==
    AntInits
        \cup {PyStr("x")}
        \cup {PyTuple(<<i>>) : i \in AntInits}
        \cup {PyTuple(<<i, PyStr("Primary device")>>) : i \in AntInits}
        \cup {PyList(<<PyInt(n), PyStr("Primary device")>>) : n \in 0..MaxAntVal}
        \cup {PyTuple(<<i, PyStr("Primary device"), PyStr("sub.10.2.1")>>) : i \in AntInits}

\* the _ant_spec declarations
AntSpecs ==
    {PyStr("brief"),
     PyList(<<PyStr("brief")>>),
     PyTuple(<<PyStr("brief"), PyStr("ref")>>),
     PyTuple(<<PyStr("name")>>),
     PyTuple(<<>>)}

\* the descriptors a prototype with the declaration a draws from: with
\* an empty _ant_spec a descriptor is the initializer itself
AntDescrsFor(a) ==
    IF a = PyTuple(<<>>)
    THEN AntInits \cup {PyTuple(<<PyInt(n)>>) : n \in 0..MaxAntVal}
    ELSE AntDescrs

\* the private part of an annotated prototype
AntPrivate ==
    {[k \in {"_ant_spec"} |-> a] : a \in AntSpecs}
        \cup {[k \in {"_ant_spec", "_str_spec", "_doc"} |->
                 CASE k = "_ant_spec" -> a
                   [] k = "_str_spec" -> PyStr("{value} {brief!r}")
                   [] OTHER -> PyStr("Devices")] :
               a \in {PyTuple(<<>>), PyTuple(<<PyStr("brief"), PyStr("ref")>>)}}

\* prototypes with private keys, of zero to two items
AntPrototype(d) ==
    \E p \in AntPrivate :
        \E K \in SUBSET AntKeys :
            \E m \in [K -> AntDescrsFor(p["_ant_spec"])] :
                d = DictUpdate(m, p)

\* a class statement assigning one of its names twice: the namespace keeps
\* the later assignment, r is the earlier one
RepeatedPrototype(d, r) ==
    \E K \in (SUBSET AntKeys) \ {{}} :
        \E k \in K :
            \E m \in [K \ {k} -> {PyInt(n) : n \in 0..MaxAntVal}] :
                \E first \in {PyInt(n) : n \in 0..MaxAntVal}, last \in AntInits :
                    /\ r = [n \in {k} |-> first]
                    /\ d = DictUpdate(DictUpdate(r, m), [n \in {k} |-> last])

Init ==
    /\ \/ (PlainPrototype(body) \/ AntPrototype(body)) /\ replaced = <<>>
       \/ RepeatedPrototype(body, replaced)
    /\ dict_ = body
    /\ pc = "declared"
    /\ cls = NoClass
    /\ error = NoError
    /\ call = NoCall
    /\ result = NoResult
    /\ readers = [r \in Readers |-> Idle]

Next == MetaNew \/ Resolve \/ ResolveNoDefault \/ Return

Spec == Init /\ [][Next]_vars

\* the classes the concurrent callers resolve in: up to three items, the
\* first single-valued or ranged, the last ending at MaxVal
ReaderPrototype(d) ==
    \E K \in SUBSET ItemKeys :
        \E a \in {PyInt(0), PyTuple(<<PyInt(0), PyInt(1)>>)} :
            d = [k \in K |->
                    CASE k = "A" -> a
                      [] k = "B" -> PyTuple(<<PyInt(2), PyInt(3)>>)
                      [] OTHER -> PyTuple(<<PyInt(MaxVal - 1), PyInt(MaxVal)>>)]

InitReaders ==
    /\ ReaderPrototype(body)
    /\ replaced = <<>>
    /\ dict_ = body
    /\ pc = "declared"
    /\ cls = NoClass
    /\ error = NoError
    /\ call = NoCall
    /\ result = NoResult
    /\ readers = [r \in Readers |-> Idle]

NextReaders ==
    \/ MetaNew
    \/ \E r \in Readers : Enter(r) \/ Check(r) \/ Iterate(r) \/ Miss(r) \/ Leave(r)

SpecReaders == InitReaders /\ [][NextReaders]_vars

\* a caller inside enumr.__new__ keeps running
FairReaders == SpecReaders /\ \A r \in Readers : WF_vars(Advance(r))

----------------------------------------------------------------------------
(* The prototype read as the documentation of enumr describes it: N names  *)
(* declared by _ant_spec, and per item the limits its descriptor gives.    *)

ItemNamesOf(d) == {k \in DOMAIN d : k \notin PrivateKeys}

\* the number of attribute names the class statement declares
DeclaredN ==
    IF "_ant_spec" \notin DOMAIN body THEN 0
    ELSE IF body["_ant_spec"].t \in {"tuple", "list"} THEN Len(body["_ant_spec"].e)
    ELSE 1

\* the descriptor of item k is a sequence of 1 + N fields when N > 0
ShapeOK(k) ==
    DeclaredN > 0 => /\ body[k].t \in {"tuple", "list"}
                     /\ Len(body[k].e) = 1 + DeclaredN

\* the range initializer of item k
DeclaredInit(k) == IF DeclaredN > 0 THEN body[k].e[1] ELSE body[k]

DeclaredLow(k) ==
    IF DeclaredInit(k).t = "int" THEN DeclaredInit(k).n ELSE DeclaredInit(k).e[1].n

DeclaredHigh(k) ==
    IF DeclaredInit(k).t = "int" THEN DeclaredInit(k).n
    ELSE DeclaredInit(k).e[Len(DeclaredInit(k).e)].n

\* item k is described by an integer or by a pair min <= max
WellFormed(k) ==
    /\ ShapeOK(k)
    /\ \/ DeclaredInit(k).t = "int"
       \/ /\ DeclaredInit(k).t \in {"tuple", "list"}
          /\ Len(DeclaredInit(k).e) = 2
          /\ DeclaredLow(k) <= DeclaredHigh(k)

AllWellFormed == \A k \in ItemNamesOf(body) : WellFormed(k)

\* a call is being made with a value of type int
IntCall == pc = "built" /\ call /= NoCall /\ call.value.t \in {"int", "bool"}

\* the items of the class
Members == {cls.dict[k] : k \in ItemNamesOf(cls.dict)}

\* the items of the class whose range holds v
Holding(v) == {M \in Members : M.min <= v /\ v <= M.max}

\* what a call that finds no item is to produce: default raised with the
\* value and the class name when it is an exception class, default itself
\* otherwise
MissOutcome ==
    IF call.default.t = "type" /\ call.default.s \in {"ValueError", "KeyError"}
    THEN Raise(Exc(call.default.s, "not_in", <<call.value, PyStr(cls.name)>>))
    ELSE ReturnDefault(call.default)

----------------------------------------------------------------------------
(* Resolution                                                              *)

\* C1: in a built class, a call with an int value v that lies within the
\* limits of an item returns exactly that item (the one declared under its
\* name, with the declared limits), whatever default is passed or omitted;
\* default is neither returned nor raised.
ResolutionTotality ==
    IntCall =>
        \A k \in ItemNamesOf(body) :
            (DeclaredLow(k) <= call.value.n /\ call.value.n <= DeclaredHigh(k)) =>
                /\ result = ReturnItem(cls.dict[k])
                /\ ItemName(result.item) = k
                /\ result.item.min = DeclaredLow(k)
                /\ result.item.max = DeclaredHigh(k)

\* a value strictly inside the last of three ranged items is resolved while
\* a fallback value was passed
ResolutionTotalityWitness ==
    /\ IntCall
    /\ Len(cls.dict["_ranges_list"]) = 3
    /\ result.kind = "item"
    /\ result.item = cls.dict["_ranges_list"][3]
    /\ call.value.n > result.item.min
    /\ call.given /\ call.default = PyNone

\* C2: in a built class, a call with an int value v that no item holds
\* returns default unchanged when default is not an exception class, and
\* raises default(v, class name) when it is one; with default omitted the
\* exception is a ValueError.
ResolutionMiss ==
    (IntCall /\ Holding(call.value.n) = {}) =>
        /\ result = MissOutcome
        /\ ~call.given => result.kind = "raise" /\ result.err.exc = "ValueError"

\* a class object that is no exception comes back as the fallback after a
\* search over two ranged items
ResolutionMissWitness ==
    /\ IntCall
    /\ Holding(call.value.n) = {}
    /\ Len(cls.dict["_ranges_list"]) >= 2
    /\ call.default = PyType("int")
    /\ result = ReturnDefault(PyType("int"))

----------------------------------------------------------------------------
(* Construction                                                            *)

\* C3: in a built class any two distinct items are strictly separated,
\* adjacent in sorted order or not.
NonOverlap ==
    pc = "built" =>
        \A a, b \in ItemNamesOf(cls.dict) :
            a /= b => \/ cls.dict[a].max < cls.dict[b].min
                      \/ cls.dict[b].max < cls.dict[a].min

\* a class of three items, two of them ranged
NonOverlapWitness ==
    /\ pc = "built"
    /\ Cardinality(ItemNamesOf(cls.dict)) = 3
    /\ Len(cls.dict["_ranges_list"]) >= 2

\* a and b follow each other when the items are sorted by min
Adjacent(a, b) ==
    /\ a /= b
    /\ DeclaredLow(a) <= DeclaredLow(b)
    /\ ~\E c \in ItemNamesOf(body) \ {a, b} :
            DeclaredLow(a) < DeclaredLow(c) /\ DeclaredLow(c) < DeclaredLow(b)

\* C4: when every descriptor is well-formed, construction fails, with the
\* overlapping-ranges error, exactly when two items adjacent in sorted
\* order have prev.max >= item.min (so a shared limit is rejected and
\* prev.max + 1 = item.min is accepted); the error carries the ranges and
\* the names of such a pair.
OverlapRejected ==
    (pc /= "declared" /\ AllWellFormed) =>
        /\ pc = "failed" <=>
               \E a, b \in ItemNamesOf(body) :
                   Adjacent(a, b) /\ DeclaredHigh(a) >= DeclaredLow(b)
        /\ pc = "failed" =>
               \E a, b \in ItemNamesOf(body) :
                   /\ Adjacent(a, b) /\ DeclaredHigh(a) >= DeclaredLow(b)
                   /\ error = Exc("ValueError", "overlapping_ranges",
                                  <<PySubrange(DeclaredLow(a), DeclaredHigh(a)),
                                    PySubrange(DeclaredLow(b), DeclaredHigh(b)),
                                    PyStr(a), PyStr(b)>>)

\* two ranged items that share exactly one limit are rejected
OverlapRejectedWitness ==
    /\ pc = "failed" /\ AllWellFormed
    /\ error.what = "overlapping_ranges"
    /\ error.args[1].e[1].n < error.args[1].e[2].n
    /\ error.args[1].e[2].n = error.args[2].e[1].n
    /\ error.args[2].e[1].n < error.args[2].e[2].n

\* the items whose descriptor is no sequence, or one of the wrong length,
\* while attribute names are declared
NotSequence == {k \in ItemNamesOf(body) : DeclaredN > 0 /\ body[k].t \notin {"tuple", "list"}}
WrongLength ==
    {k \in ItemNamesOf(body) :
        DeclaredN > 0 /\ body[k].t \in {"tuple", "list"} /\ Len(body[k].e) /= 1 + DeclaredN}

\* C5: with N > 0 declared attribute names (a string counting as one
\* name), construction fails when some descriptor is no sequence or has a
\* length other than 1 + N; a descriptor-type error names an item whose
\* descriptor is no sequence, a descriptor-arity error names an item whose
\* descriptor is a sequence of the wrong length together with that length
\* and 1 + N, and when one item alone is at fault the error is the one of
\* that item (so a non-sequence is never reported as an arity error).
DescriptorChecked ==
    (pc /= "declared" /\ DeclaredN > 0) =>
        /\ (NotSequence \cup WrongLength /= {}) => pc = "failed"
        /\ error.what = "descriptor_type" =>
               \E k \in NotSequence :
                   error = Exc("TypeError", "descriptor_type", <<PyStr(k), PyStr(body[k].t)>>)
        /\ error.what = "descriptor_arity" =>
               \E k \in WrongLength :
                   error = Exc("ValueError", "descriptor_arity",
                               <<PyStr(k), PyInt(Len(body[k].e)), PyInt(1 + DeclaredN)>>)
        /\ \A k \in NotSequence :
               (\A j \in ItemNamesOf(body) \ {k} : WellFormed(j)) =>
                   error.what = "descriptor_type"
        /\ \A k \in WrongLength :
               (\A j \in ItemNamesOf(body) \ {k} : WellFormed(j)) =>
                   error.what = "descriptor_arity"

\* _ant_spec is a single string and an item is described by a bare integer
DescriptorCheckedWitness ==
    /\ pc = "failed"
    /\ "_ant_spec" \in DOMAIN body
    /\ body["_ant_spec"].t = "str"
    /\ error.what = "descriptor_type"
    /\ error.args[2] = PyStr("int")

\* the attribute names the class statement declares, in order
DeclaredNames ==
    IF "_ant_spec" \notin DOMAIN body THEN <<>>
    ELSE IF body["_ant_spec"].t \in {"tuple", "list"}
    THEN [i \in 1..Len(body["_ant_spec"].e) |-> body["_ant_spec"].e[i].s]
    ELSE <<body["_ant_spec"].s>>

ReservedNames == {"min", "max", "value", "name"}

\* C6 (as claimed): a reserved name among the declared attribute names
\* makes construction fail with the reserved-attribute-name error, with or
\* without items, and an item of a built class holds under every declared
\* attribute name the value its descriptor gives for it.
ReservedNamesRejected ==
    /\ (pc /= "declared"
            /\ \E i \in 1..Len(DeclaredNames) : DeclaredNames[i] \in ReservedNames) =>
           pc = "failed" /\ error.what = "reserved_attribute_name"
    /\ pc = "built" =>
           \A k \in ItemNamesOf(body) :
               \A i \in 1..Len(DeclaredNames) :
                   cls.dict[k].kw[DeclaredNames[i]] = body[k].e[1 + i]

\* C7: a call with a value that is not of type int raises the
\* invalid-initializer TypeError, in every built class and whatever
\* default is passed or omitted: no lookup answers it and no fallback
\* replaces it.
TypeChecked ==
    (pc = "built" /\ call /= NoCall /\ call.value.t \notin {"int", "bool"}) =>
        result = Raise(Exc("TypeError", "invalid_initializer", <<call.value>>))

\* a string is passed together with the fallback None
TypeCheckedWitness ==
    /\ pc = "built"
    /\ call.value = PyStr("1")
    /\ call.given /\ call.default = PyNone
    /\ result.kind = "raise"

\* the descriptor of item k has the required shape and gives min > max
InvalidRange(k) ==
    /\ ShapeOK(k)
    /\ DeclaredInit(k).t \in {"tuple", "list"}
    /\ DeclaredLow(k) > DeclaredHigh(k)

Rejected(k) == k \in NotSequence \cup WrongLength \/ InvalidRange(k)

\* two items with valid descriptors share a value
SomeOverlap ==
    LET valid == {k \in ItemNamesOf(body) : ~Rejected(k)}
    IN \E a, b \in valid :
           /\ a /= b
           /\ DeclaredLow(a) <= DeclaredHigh(b) /\ DeclaredLow(b) <= DeclaredHigh(a)

\* C8: an invalid descriptor or two overlapping or touching ranges make
\* construction raise; after a raise there is no class, the namespace
\* holds the descriptors as written and neither lookup structure, and no
\* call was made; a class exists only with no error, and its namespace
\* holds both lookup structures.
AllOrNothing ==
    /\ (pc /= "declared" /\ ((\E k \in ItemNamesOf(body) : Rejected(k)) \/ SomeOverlap)) =>
           pc = "failed"
    /\ pc = "failed" =>
           /\ error /= NoError
           /\ cls = NoClass
           /\ dict_ = body
           /\ {"_lookup_dict", "_ranges_list"} \cap DOMAIN dict_ = {}
           /\ call = NoCall /\ result = NoResult
    /\ pc = "built" =>
           /\ error = NoError
           /\ cls.dict = dict_
           /\ {"_lookup_dict", "_ranges_list"} \subseteq DOMAIN dict_
    /\ pc = "declared" => cls = NoClass /\ dict_ = body

\* the overlap walk fails on a prototype of three well-formed items
AllOrNothingWitness ==
    /\ pc = "failed"
    /\ error.what = "overlapping_ranges"
    /\ Cardinality(ItemNamesOf(body)) = 3
    /\ AllWellFormed

\* C9 (as claimed): the direct lookup has an entry for k exactly when some
\* item is the single value k, and ranged items have no entry.
SingletonLookupOnly ==
    pc = "built" =>
        \A k \in -1..(MaxVal + 1) :
            k \in DOMAIN cls.dict["_lookup_dict"] <=>
                \E M \in Members : M.min = k /\ M.max = k

\* C9 (amended): the direct lookup has an entry for k exactly when some
\* item has min = k, single-valued or ranged, and the entry is that item.
LookupByLow ==
    pc = "built" =>
        /\ DOMAIN cls.dict["_lookup_dict"] = {M.min : M \in Members}
        /\ \A M \in Members : cls.dict["_lookup_dict"][M.min] = M

\* a ranged item is entered in the direct lookup under its min
LookupByLowWitness ==
    /\ pc = "built"
    /\ \E M \in Members :
           M.min < M.max /\ M.min \in DOMAIN cls.dict["_lookup_dict"]

\* C10: the ranged-items list holds exactly the items with min < max, each
\* once, in strictly ascending order of min, and a call with an int value
\* gives what a scan over all items gives: the item holding the value, or
\* the miss outcome when there is none.
OrderConsistency ==
    pc = "built" =>
        LET ranges_list == cls.dict["_ranges_list"]
        IN /\ {ranges_list[i] : i \in 1..Len(ranges_list)} = {M \in Members : M.min < M.max}
           /\ \A i \in 1..(Len(ranges_list) - 1) : ranges_list[i].min < ranges_list[i+1].min
           /\ IntCall =>
                  result = IF Holding(call.value.n) /= {}
                           THEN ReturnItem(CHOOSE M \in Holding(call.value.n) : TRUE)
                           ELSE MissOutcome

\* a single-valued item precedes two ranged ones and the search ends in
\* the second of them
OrderConsistencyWitness ==
    /\ IntCall
    /\ Len(cls.dict["_ranges_list"]) = 2
    /\ \E M \in Members : M.min = M.max /\ M.max < cls.dict["_ranges_list"][1].min
    /\ result = ReturnItem(cls.dict["_ranges_list"][2])
    /\ call.value.n = result.item.max

\* C11 (as claimed): a class statement in which two assignments carry the
\* same name is rejected: construction fails with DuplicateNameError.
DuplicateNamesRejected ==
    (pc /= "declared" /\ replaced /= <<>>) =>
        (pc = "failed" /\ error.exc = "DuplicateNameError")

\* C11 (amended): construction never raises DuplicateNameError; the
\* namespace holds one descriptor per name, the later one when the class
\* statement assigns a name twice, and in every built class the item names
\* are the names of the namespace, the item under a name carries that name
\* and the limits of its descriptor, no two entries of the direct lookup
\* share a name, and every entry of the direct lookup and of the
\* ranged-items list is the item found under its own name.
NamesUnique ==
    /\ error.exc /= "DuplicateNameError"
    /\ pc = "built" =>
           LET lookup == cls.dict["_lookup_dict"]
               ranges_list == cls.dict["_ranges_list"]
           IN /\ ItemNamesOf(cls.dict) = ItemNamesOf(body)
              /\ \A k \in ItemNamesOf(cls.dict) :
                     /\ ItemName(cls.dict[k]) = k
                     /\ cls.dict[k].min = DeclaredLow(k)
                     /\ cls.dict[k].max = DeclaredHigh(k)
              /\ \A v, w \in DOMAIN lookup :
                     v /= w => ItemName(lookup[v]) /= ItemName(lookup[w])
              /\ \A v \in DOMAIN lookup : lookup[v] = cls.dict[ItemName(lookup[v])]
              /\ \A i \in 1..Len(ranges_list) :
                     ranges_list[i] = cls.dict[ItemName(ranges_list[i])]

\* a class of two items is built from a class statement that assigned one
\* of the names twice, and the item has the limits of the later assignment
NamesUniqueWitness ==
    /\ pc = "built"
    /\ Cardinality(ItemNamesOf(cls.dict)) = 2
    /\ \E k \in DOMAIN replaced :
           /\ ItemName(cls.dict[k]) = k
           /\ cls.dict[k].min /= replaced[k].n

\* the miss outcome of caller r
MissOutcomeOf(r) ==
    IF readers[r].default.t = "type" /\ readers[r].default.s \in {"ValueError", "KeyError"}
    THEN Raise(Exc(readers[r].default.s, "not_in", <<readers[r].value, PyStr(cls.name)>>))
    ELSE ReturnDefault(readers[r].default)

\* a step of caller r from inside the loop either returns the item at
\* mid = floor((left + right) / 2), which holds the value, or moves right
\* to mid - 1 with the value below that item, or left to mid + 1 with the
\* value above it, and right - left becomes strictly smaller
ShrinkingPass(r) ==
    LET me == readers[r]
        v == me.value.n
        mid == (me.st.left + me.st.right) \div 2
        item == cls.dict["_ranges_list"][mid + 1]
    IN /\ 2 * mid <= me.st.left + me.st.right
       /\ me.st.left + me.st.right < 2 * mid + 2
       /\ \/ /\ item.min <= v /\ v <= item.max
             /\ readers'[r].at = "done"
             /\ readers'[r].result = ReturnItem(item)
          \/ /\ v < item.min
             /\ readers'[r].at = "loop"
             /\ readers'[r].st.right = mid - 1
             /\ readers'[r].st.left = me.st.left
          \/ /\ v > item.max
             /\ readers'[r].at = "loop"
             /\ readers'[r].st.left = mid + 1
             /\ readers'[r].st.right = me.st.right
       /\ readers'[r].at = "loop" =>
              readers'[r].st.right - readers'[r].st.left < me.st.right - me.st.left

\* C12: the binary search always terminates.  It starts with left = 0 and
\* right = m - 1; every pass of the loop returns the item at mid, or sets
\* right = mid - 1 or left = mid + 1, and strictly shrinks right - left;
\* a caller in the loop gets to the end of its call, with a hit or with
\* left > right and the miss outcome; with an empty ranged-items list no
\* pass is made and the next step gives the miss outcome.
Termination ==
    /\ \A r \in Readers : (readers[r].at = "loop") ~> (readers[r].at = "done")
    /\ [][\A r \in Readers :
             /\ (readers[r].at = "check" /\ readers'[r].at = "loop") =>
                    /\ readers'[r].st.left = 0
                    /\ readers'[r].st.right = Len(cls.dict["_ranges_list"]) - 1
             /\ (readers[r].at = "loop" /\ readers'[r] /= readers[r]) =>
                    IF readers[r].st.left <= readers[r].st.right
                    THEN ShrinkingPass(r)
                    ELSE /\ readers'[r].at = "done"
                         /\ readers'[r].result = MissOutcomeOf(r)]_vars
    /\ [](\A r \in Readers :
             readers[r].at = "loop" =>
                 /\ 0 <= readers[r].st.left
                 /\ readers[r].st.right <= Len(cls.dict["_ranges_list"]) - 1
                 /\ readers[r].st.left <= readers[r].st.right + 1
                 /\ Len(cls.dict["_ranges_list"]) = 0 =>
                        readers[r].st.left > readers[r].st.right)

\* a search over three ranged items made two passes, ended with
\* left > right and gave the miss outcome, while the other caller is
\* inside its own search
TerminationWitness ==
    /\ pc = "built"
    /\ Len(cls.dict["_ranges_list"]) = 3
    /\ readers["r1"].at = "done"
    /\ readers["r1"].st.left > readers["r1"].st.right
    /\ readers["r1"].st.left = 3
    /\ readers["r1"].result = MissOutcomeOf("r1")
    /\ readers["r2"].at = "loop"

\* the class as _MetaEnumr.__new__ builds it from the class statement
FreshlyBuilt ==
    [name |-> cls.name,
     dict |-> MetaNewOutcome(cls.name, body, CHOOSE o \in Orders(body) : TRUE).dict]

\* C13: resolution is read-only.  After any sequence or interleaving of
\* calls by several callers, whatever their outcomes, the class has the
\* items, names, limits, direct lookup and ranged-items list it was built
\* with, and every finished call has the outcome it has when run alone on
\* the freshly built class.
ReadOnly ==
    pc = "built" =>
        /\ cls = FreshlyBuilt
        /\ dict_ = FreshlyBuilt.dict
        /\ \A r \in Readers :
               readers[r].at = "done" =>
                   readers[r].result =
                       New(FreshlyBuilt, readers[r].value, readers[r].default)

\* one caller has a hit found by the search while the other failed the
\* type check, in a class of a single-valued and two ranged items
ReadOnlyWitness ==
    /\ pc = "built"
    /\ Len(cls.dict["_ranges_list"]) = 2
    /\ Cardinality(DOMAIN cls.dict["_lookup_dict"]) = 3
    /\ readers["r1"].at = "done"
    /\ readers["r1"].st.found
    /\ readers["r1"].result.kind = "item"
    /\ readers["r2"].at = "done"
    /\ readers["r2"].result.kind = "raise"
    /\ readers["r2"].result.err.exc = "TypeError"

====
